---- MODULE Spec2Model ----
(***************************************************************************)
(* Compliance-action write/query subsystem of the backend (app.js), the    *)
(* index routes (routes over compliance_actions) and the chaincode         *)
(* (compliance-contract.js).                                               *)
(*                                                                         *)
(* Node.js runs one handler at a time and switches handlers only at an     *)
(* await: every action below is the code between two awaits of a handler.  *)
(* A backend call (ledger transaction, SQL query) either answers or throws;*)
(* which one is an input of the action that receives the answer.           *)
(***************************************************************************)
EXTENDS Integers, Sequences, FiniteSets, TLC

\* ------------------------------------------------------------------ bounds
\* Number of keys of the chaincode's ledger.
MaxEntries == 4

\* Number of POST /api/compliance/action requests, each handled by its own
\* concurrent task.
NumCalls == 2

Calls == 1..NumCalls

\* ------------------------------------------------------------ JS values
\* A field that is absent from an object (JS undefined, dropped by JSON).
Absent == "undefined"
\* An absent number. Confidence is held in hundredths: 92 is 0.92.
Undefined == -1000

\* !x of a JS string: undefined and the empty string are falsy.
Falsy(s) == s \in {Absent, ""}

\* x || 0.0 of a JS number: undefined and 0 give 0.
OrZero(n) == IF n = Undefined \/ n = 0 THEN 0 ELSE n

\* x || d of a JS string.
OrDefault(s, d) == IF Falsy(s) THEN d ELSE s

\* uuidv4(): the n-th identifier drawn; two draws never agree.
Uuid(n) == "uuid-" \o ToString(n)

\* ------------------------------------------------------- request bodies
\* req.body of POST /api/compliance/action: the request of the end-to-end
\* scenario, requests with an out-of-range or absent confidence, requests
\* that carry an id of their own, and requests without a required field.
\* A body may also carry fields the record has (actionTaken, status,
\* blockHash): the handler passes the whole body on.
Request(p, a, conf, id) ==
    [policyId |-> p, action |-> a, confidence |-> conf, id |-> id,
     actionTaken |-> Absent, status |-> Absent, blockHash |-> Absent]

Bodies ==
    { Request("POL-003", "BLOCK_RDP_PORT", 92, Absent),
      Request("POL-003", "BLOCK_RDP_PORT", 150, Absent),
      [Request("POL-003", "BLOCK_RDP_PORT", -20, "ACT-1")
          EXCEPT !.status = "PENDING", !.blockHash = ""],
      Request("POL-003", "BLOCK_RDP_PORT", Undefined, "ACT-1"),
      Request("", "BLOCK_RDP_PORT", 92, Absent),
      [Request("POL-003", Absent, 92, Absent)
          EXCEPT !.actionTaken = "BLOCK_RDP_PORT"] }

NoBody == Request(Absent, Absent, Undefined, Absent)

\* The value of complianceRecord before it is assigned.
NoRecord == [id |-> Absent, policyId |-> Absent, action |-> Absent,
             actionTaken |-> Absent, confidence |-> Undefined,
             status |-> Absent, blockHash |-> Absent, docType |-> Absent]

\* No response sent yet.
NoResponse == [code |-> 0, record |-> NoRecord]

VARIABLES
    started,            \* app.listen has been called
    blockchainEnabled,  \* app.js: let blockchainEnabled
    nextUuid,           \* number of uuidv4() draws so far
    simActions,         \* SimulationMode.actions
    worldState,         \* the chaincode's ledger, in range-scan order
    events,             \* events set by the chaincode
    index,              \* rows of compliance_actions, in insertion order
    pc,                 \* where each record call stands
    body,               \* its req.body
    rec,                \* its complianceRecord
    resp,               \* the response it sent
    trace,              \* the side effects it performed, in order
    reader,             \* the read request in progress and its response
    tx                  \* the last chaincode transaction a client invoked

recorder == <<pc, body, rec, resp, trace>>
stores == <<simActions, worldState, events, index>>
vars == <<started, blockchainEnabled, nextUuid, simActions, worldState,
          events, index, pc, body, rec, resp, trace, reader, tx>>

\* ------------------------------------------------------------- startup
\* connectToBlockchain: any missing configuration, missing identity or
\* thrown error leaves blockchainEnabled false; a completed handshake sets
\* it. startServer then listens.
connectToBlockchain(handshake) == handshake

\* startServer connecting again while the server is listening.
startServerRetry(handshake) ==
    /\ blockchainEnabled' = connectToBlockchain(handshake)
    /\ started' = TRUE
    /\ UNCHANGED <<nextUuid, stores, recorder, reader>>
    /\ UNCHANGED tx

startServer(handshake) ==
    /\ ~started
    /\ blockchainEnabled' = connectToBlockchain(handshake)
    /\ started' = TRUE
    /\ UNCHANGED <<nextUuid, stores, recorder, reader>>
    /\ UNCHANGED tx

\* ------------------------------------------------------- ledger stores
\* SimRecord with the spread of the body written last.
SimRecordSpreadLast(b, uuid) ==
    [id          |-> IF b.id # Absent THEN b.id ELSE uuid,
     policyId    |-> b.policyId,
     action      |-> b.action,
     actionTaken |-> b.actionTaken,
     confidence  |-> b.confidence,
     status      |-> IF b.status # Absent THEN b.status ELSE "EXECUTED",
     blockHash   |-> IF b.blockHash # Absent THEN b.blockHash
                     ELSE "simulated-" \o uuid,
     docType     |-> Absent]

\* SimulationMode.submitTransaction: { id: uuidv4(), ...actionData,
\* status, timestamp, blockHash }. The spread comes after id, so an id of
\* the body replaces the generated one; status and blockHash come after it.
SimRecord(b, uuid) ==
    [id          |-> IF b.id # Absent THEN b.id ELSE uuid,
     policyId    |-> b.policyId,
     action      |-> b.action,
     actionTaken |-> b.actionTaken,
     confidence  |-> b.confidence,
     status      |-> "EXECUTED",
     blockHash   |-> "simulated-" \o uuid,
     docType     |-> Absent]

\* SimPush storing the record twice.
SimPushTwice(actions, r) == Append(Append(actions, r), r)

\* this.actions.push(complianceRecord)
SimPush(actions, r) == Append(actions, r)

\* ExecuteComplianceAction: the record the chaincode builds.
ChainRecord(b, uuid) ==
    [id          |-> uuid,
     policyId    |-> b.policyId,
     action      |-> Absent,
     actionTaken |-> b.action,
     confidence  |-> b.confidence,
     status      |-> "EXECUTED",
     blockHash   |-> Absent,
     docType     |-> "complianceAction"]

HasKey(ws, k) == \E i \in 1..Len(ws) : ws[i].key = k

InsertAt(s, pos, e) == SubSeq(s, 1, pos - 1) \o <<e>> \o SubSeq(s, pos, Len(s))

\* ctx.stub.putState(key, value): an existing key is overwritten in place;
\* a new key takes its place in key order. Keys are random uuids, so that
\* place (pos) is any place of the scan order.
PutState(ws, k, v, pos) ==
    IF HasKey(ws, k)
    THEN [i \in 1..Len(ws) |->
            IF ws[i].key = k THEN [key |-> k, value |-> v] ELSE ws[i]]
    ELSE InsertAt(ws, pos, [key |-> k, value |-> v])

\* ctx.stub.getState(key): the value, or NoRecord (an empty buffer).
GetState(ws, k) ==
    IF HasKey(ws, k)
    THEN (CHOOSE e \in {ws[i] : i \in 1..Len(ws)} : e.key = k).value
    ELSE NoRecord

RECURSIVE ScanDocType(_, _)
\* QueryAllActions: the range scan, keeping docType complianceAction.
ScanDocType(ws, doc) ==
    IF ws = <<>> THEN <<>>
    ELSE IF Head(ws).value.docType = doc
         THEN <<Head(ws).value>> \o ScanDocType(Tail(ws), doc)
         ELSE ScanDocType(Tail(ws), doc)

\* QueryAllActions without the docType test: every entry of the scan.
QueryAllEntries(ws) == [i \in 1..Len(ws) |-> ws[i].value]

QueryAllActions(ws) == ScanDocType(ws, "complianceAction")

\* QueryAction: throws (NoRecord here) when the key holds nothing.
QueryAction(ws, id) == GetState(ws, id)

\* SimulationMode.evaluateTransaction: the whole array, whatever is asked.
SimEvaluate(actions) == actions

\* ----------------------------------------------------- secondary index
\* IndexRow writing the status a new row defaults to.
IndexRowPending(r) ==
    [id          |-> r.id,
     policy_id   |-> r.policyId,
     action_taken |-> r.action,
     confidence  |-> OrZero(r.confidence),
     status      |-> "PENDING"]

\* IndexRow leaving the id to the database, as the INSERT of the index
\* routes does.
IndexRowOwnId(r) ==
    [id          |-> "row-" \o r.id,
     policy_id   |-> r.policyId,
     action_taken |-> r.action,
     confidence  |-> OrZero(r.confidence),
     status      |-> OrDefault(r.status, "PENDING")]

\* The row of INSERT INTO compliance_actions built from complianceRecord.
IndexRow(r) ==
    [id          |-> r.id,
     policy_id   |-> r.policyId,
     action_taken |-> r.action,
     confidence  |-> OrZero(r.confidence),
     status      |-> OrDefault(r.status, "PENDING")]

RECURSIVE Reverse(_)
Reverse(s) == IF s = <<>> THEN <<>> ELSE Reverse(Tail(s)) \o <<Head(s)>>

\* SELECT * FROM compliance_actions ORDER BY timestamp DESC: the row's
\* timestamp is taken when the insert is issued, so the latest insert
\* comes first.
SelectActionsDesc(rows) == Reverse(rows)

\* SELECT ... WHERE ca.id = $1
SelectById(rows, id) == SelectSeq(rows, LAMBDA r : r.id = id)

\* ------------------------------------------- POST /api/compliance/action
\* Valid checking policyId alone.
ValidPolicyOnly(b) == ~Falsy(b.policyId)

Valid(b) == ~(Falsy(b.policyId) \/ Falsy(b.action))

Log(c, e) == [trace EXCEPT ![c] = Append(@, e)]

\* The handler up to its first await. A body without policyId or action is
\* answered 400. In simulation mode submitTransaction has no await of its
\* own: the record is pushed before the handler is suspended. With the
\* real backend the transaction is sent to the network. Requests are
\* numbered in their order of arrival.
RecordBegin(c, b) ==
    /\ started
    /\ pc[c] = "idle"
    /\ \A d \in Calls : d < c => pc[d] # "idle"
    /\ body' = [body EXCEPT ![c] = b]
    /\ IF ~Valid(b)
       THEN /\ resp' = [resp EXCEPT ![c] = [code |-> 400, record |-> NoRecord]]
            /\ pc' = [pc EXCEPT ![c] = "done"]
            /\ UNCHANGED <<nextUuid, simActions, rec, trace>>
       ELSE IF blockchainEnabled
       THEN /\ pc' = [pc EXCEPT ![c] = "submitted"]
            /\ UNCHANGED <<nextUuid, simActions, rec, resp, trace>>
       ELSE /\ nextUuid' = nextUuid + 1
            /\ simActions' = SimPush(simActions, SimRecord(b, Uuid(nextUuid + 1)))
            /\ rec' = [rec EXCEPT ![c] = SimRecord(b, Uuid(nextUuid + 1))]
            /\ trace' = Log(c, "ledger")
            /\ pc' = [pc EXCEPT ![c] = "ledgerDone"]
            /\ UNCHANGED resp
    /\ UNCHANGED <<started, blockchainEnabled, worldState, events, index, reader>>
    /\ UNCHANGED tx

\* ExecuteComplianceAction setting the event from the request it was sent
\* instead of the record it stores.
ExecuteComplianceActionEventOfRequest(c, pos) ==
    /\ pc[c] = "submitted"
    /\ pos \in 1..(Len(worldState) + 1)
    /\ nextUuid' = nextUuid + 1
    /\ worldState' = PutState(worldState, Uuid(nextUuid + 1),
                              ChainRecord(body[c], Uuid(nextUuid + 1)), pos)
    /\ events' = events \cup {[name |-> "ComplianceActionExecuted",
                                payload |-> [ChainRecord(body[c], Uuid(nextUuid + 1))
                                                EXCEPT !.status = body[c].status]]}
    /\ rec' = [rec EXCEPT ![c] = ChainRecord(body[c], Uuid(nextUuid + 1))]
    /\ trace' = Log(c, "ledger")
    /\ pc' = [pc EXCEPT ![c] = "ledgerDone"]
    /\ UNCHANGED <<started, blockchainEnabled, simActions, index, body, resp, reader>>
    /\ UNCHANGED tx

\* ExecuteComplianceAction runs on the ledger and its result reaches the
\* handler: the record is stored under a fresh id and sent as an event.
ExecuteComplianceAction(c, pos) ==
    /\ pc[c] = "submitted"
    /\ pos \in 1..(Len(worldState) + 1)
    /\ nextUuid' = nextUuid + 1
    /\ worldState' = PutState(worldState, Uuid(nextUuid + 1),
                              ChainRecord(body[c], Uuid(nextUuid + 1)), pos)
    /\ events' = events \cup {[name |-> "ComplianceActionExecuted",
                                payload |-> ChainRecord(body[c], Uuid(nextUuid + 1))]}
    /\ rec' = [rec EXCEPT ![c] = ChainRecord(body[c], Uuid(nextUuid + 1))]
    /\ trace' = Log(c, "ledger")
    /\ pc' = [pc EXCEPT ![c] = "ledgerDone"]
    /\ UNCHANGED <<started, blockchainEnabled, simActions, index, body, resp, reader>>
    /\ UNCHANGED tx

\* contract.submitTransaction throws (the ledger is unreachable or refuses):
\* the outer catch answers 500 with the error message.
SubmitFailed(c) ==
    /\ pc[c] = "submitted"
    /\ resp' = [resp EXCEPT ![c] = [code |-> 500, record |-> NoRecord]]
    /\ trace' = Log(c, "ledgerFail")
    /\ pc' = [pc EXCEPT ![c] = "done"]
    /\ UNCHANGED <<started, blockchainEnabled, nextUuid, stores, body, rec, reader>>
    /\ UNCHANGED tx

\* The INSERT of the record into compliance_actions succeeds.
MirrorInsert(c) ==
    /\ pc[c] = "ledgerDone"
    /\ index' = Append(index, IndexRow(rec[c]))
    /\ trace' = Log(c, "mirror")
    /\ pc' = [pc EXCEPT ![c] = "mirrored"]
    /\ UNCHANGED <<started, blockchainEnabled, nextUuid, simActions, worldState,
                   events, body, rec, resp, reader>>
    /\ UNCHANGED tx

\* MirrorFailed without the inner try/catch: the outer catch answers 500.
MirrorFailedAborts(c) ==
    /\ pc[c] = "ledgerDone"
    /\ trace' = Log(c, "mirrorFail")
    /\ resp' = [resp EXCEPT ![c] = [code |-> 500, record |-> NoRecord]]
    /\ pc' = [pc EXCEPT ![c] = "done"]
    /\ UNCHANGED <<started, blockchainEnabled, nextUuid, stores, body, rec, reader>>
    /\ UNCHANGED tx

\* The INSERT throws: the inner catch logs it and the handler goes on.
MirrorFailed(c) ==
    /\ pc[c] = "ledgerDone"
    /\ trace' = Log(c, "mirrorFail")
    /\ pc' = [pc EXCEPT ![c] = "mirrored"]
    /\ UNCHANGED <<started, blockchainEnabled, nextUuid, stores, body, rec, resp, reader>>
    /\ UNCHANGED tx

\* triggerEnforcement called without awaiting the INSERT.
triggerEnforcementEarly(c) ==
    /\ pc[c] = "ledgerDone"
    /\ trace' = Log(c, "enforce")
    /\ pc' = [pc EXCEPT ![c] = "enforced"]
    /\ UNCHANGED <<started, blockchainEnabled, nextUuid, stores, body, rec, resp, reader>>
    /\ UNCHANGED tx

\* triggerEnforcement throwing outward on a record without actionTaken: the
\* outer catch of the handler answers 500.
triggerEnforcementThrows(c) ==
    /\ pc[c] = "mirrored"
    /\ trace' = Log(c, "enforce")
    /\ IF rec[c].actionTaken = Absent
       THEN /\ resp' = [resp EXCEPT ![c] = [code |-> 500, record |-> NoRecord]]
            /\ pc' = [pc EXCEPT ![c] = "done"]
       ELSE /\ pc' = [pc EXCEPT ![c] = "enforced"]
            /\ UNCHANGED resp
    /\ UNCHANGED <<started, blockchainEnabled, nextUuid, stores, body, rec, reader>>
    /\ UNCHANGED tx

\* await triggerEnforcement(complianceRecord): it logs and never throws.
triggerEnforcement(c) ==
    /\ pc[c] = "mirrored"
    /\ trace' = Log(c, "enforce")
    /\ pc' = [pc EXCEPT ![c] = "enforced"]
    /\ UNCHANGED <<started, blockchainEnabled, nextUuid, stores, body, rec, resp, reader>>
    /\ UNCHANGED tx

\* res.json(complianceRecord)
RecordRespond(c) ==
    /\ pc[c] = "enforced"
    /\ resp' = [resp EXCEPT ![c] = [code |-> 200, record |-> rec[c]]]
    /\ trace' = Log(c, "respond")
    /\ pc' = [pc EXCEPT ![c] = "done"]
    /\ UNCHANGED <<started, blockchainEnabled, nextUuid, stores, body, rec, reader>>
    /\ UNCHANGED tx

\* ------------------------------------------------------------- readers
Idle == [op |-> "none", pc |-> "idle", arg |-> Absent, consulted |-> <<>>,
         code |-> 0, rows |-> <<>>]

Answer(op, arg, consulted, code, rows) ==
    [op |-> op, pc |-> "done", arg |-> arg, consulted |-> consulted,
     code |-> code, rows |-> rows]

\* GET /api/compliance/actions up to its first await. In simulation mode
\* evaluateTransaction has no await of its own and cannot throw: the array
\* is read at once and is what the handler answers. The query string
\* (status is the filter the page sends) is never read by the handler.
ListBegin(status) ==
    /\ started
    /\ reader.pc = "idle"
    /\ reader' = IF blockchainEnabled
                 THEN [Idle EXCEPT !.op = "list", !.pc = "ledger", !.arg = status]
                 ELSE Answer("list", status, <<"ledger">>, 200, SimEvaluate(simActions))
    /\ UNCHANGED <<started, blockchainEnabled, nextUuid, stores, recorder>>
    /\ UNCHANGED tx

\* contract.evaluateTransaction('QueryAllActions') answers.
ListLedgerReply ==
    /\ reader.op = "list" /\ reader.pc = "ledger"
    /\ reader' = Answer("list", reader.arg, <<"ledger">>, 200, QueryAllActions(worldState))
    /\ UNCHANGED <<started, blockchainEnabled, nextUuid, stores, recorder>>
    /\ UNCHANGED tx

\* ListLedgerFailed without the fallback: the catch answers 500 at once.
ListLedgerFailedNoFallback ==
    /\ reader.op = "list" /\ reader.pc = "ledger"
    /\ reader' = Answer("list", reader.arg, <<"ledgerFail">>, 500, <<>>)
    /\ UNCHANGED <<started, blockchainEnabled, nextUuid, stores, recorder>>
    /\ UNCHANGED tx

\* contract.evaluateTransaction throws: the catch queries the database.
ListLedgerFailed ==
    /\ reader.op = "list" /\ reader.pc = "ledger"
    /\ reader' = [reader EXCEPT !.pc = "fallback", !.consulted = <<"ledgerFail">>]
    /\ UNCHANGED <<started, blockchainEnabled, nextUuid, stores, recorder>>
    /\ UNCHANGED tx

\* The fallback SELECT answers: res.json(rows).
ListIndexReply ==
    /\ reader.op = "list" /\ reader.pc = "fallback"
    /\ reader' = Answer("list", reader.arg, Append(reader.consulted, "index"), 200,
                        SelectActionsDesc(index))
    /\ UNCHANGED <<started, blockchainEnabled, nextUuid, stores, recorder>>
    /\ UNCHANGED tx

\* The built-in default set of GET /api/policies, the only one in app.js.
defaultPolicies ==
    << [id |-> "POL-001", standard |-> "NIST", severity |-> "HIGH",
        required_action |-> "ENABLE_MFA"],
       [id |-> "POL-002", standard |-> "ISO27001", severity |-> "MEDIUM",
        required_action |-> "ENABLE_ENCRYPTION"],
       [id |-> "POL-003", standard |-> "PCI-DSS", severity |-> "CRITICAL",
        required_action |-> "BLOCK_RDP_PORT"] >>

\* ListIndexFailed answering the default set, as GET /api/policies does.
ListIndexFailedDefaults ==
    /\ reader.op = "list" /\ reader.pc = "fallback"
    /\ reader' = Answer("list", reader.arg, Append(reader.consulted, "indexFail"), 200,
                        defaultPolicies)
    /\ UNCHANGED <<started, blockchainEnabled, nextUuid, stores, recorder>>
    /\ UNCHANGED tx

\* The fallback SELECT throws too: 500, failed to fetch from all sources.
ListIndexFailed ==
    /\ reader.op = "list" /\ reader.pc = "fallback"
    /\ reader' = Answer("list", reader.arg, Append(reader.consulted, "indexFail"), 500, <<>>)
    /\ UNCHANGED <<started, blockchainEnabled, nextUuid, stores, recorder>>
    /\ UNCHANGED tx

\* limit = 100 of the index routes: the page size when none is asked.
DefaultLimit == 100

\* The limits a list request may carry: none, a number, or text that
\* parseInt reads as NaN (held as -1).
NaN == -1
AskedLimits == {Undefined, 1, 1000, NaN}

\* status.toUpperCase() of the values a client sends.
ToUpperCase(s) ==
    CASE s = "executed" -> "EXECUTED"
      [] s = "pending"  -> "PENDING"
      [] OTHER          -> s

\* The first n rows: LIMIT n with OFFSET 0.
Limit(rows, n) == SubSeq(rows, 1, IF n < Len(rows) THEN n ELSE Len(rows))

\* The SELECT of GET /compliance/actions of the index routes: the status
\* filter when one is given, newest first, LIMIT parseInt(limit).
SelectPage(rows, status, limit) ==
    Limit(SelectActionsDesc(
              IF Falsy(status) THEN rows
              ELSE SelectSeq(rows, LAMBDA r : r.status = ToUpperCase(status))),
          IF limit = Undefined THEN DefaultLimit ELSE limit)

\* GET /compliance/actions of the index routes. The limit asked for goes
\* to the query as it is; a NaN limit makes the query throw, which is
\* answered 500.
ListActions(status, limit) ==
    /\ started
    /\ reader.pc = "idle"
    /\ reader' = IF limit = NaN
                 THEN Answer("page", status, <<"indexFail">>, 500, <<>>)
                 ELSE Answer("page", status, <<"index">>, 200,
                             SelectPage(index, status, limit))
    /\ UNCHANGED <<started, blockchainEnabled, nextUuid, stores, recorder>>
    /\ UNCHANGED tx

\* The same request when the SELECT throws: 500.
ListActionsFailed(status) ==
    /\ started
    /\ reader.pc = "idle"
    /\ reader' = Answer("page", status, <<"indexFail">>, 500, <<>>)
    /\ UNCHANGED <<started, blockchainEnabled, nextUuid, stores, recorder>>
    /\ UNCHANGED tx

\* GetAction asking the ledger in use when the index has no row.
GetActionFromLedger(id) ==
    /\ started
    /\ reader.pc = "idle"
    /\ reader' =
         IF SelectById(index, id) # <<>>
         THEN Answer("get", id, <<"index">>, 200, <<SelectById(index, id)[1]>>)
         ELSE IF \E i \in 1..Len(simActions) : simActions[i].id = id
         THEN Answer("get", id, <<"index">>, 200,
                     <<SelectSeq(simActions, LAMBDA r : r.id = id)[1]>>)
         ELSE IF HasKey(worldState, id)
         THEN Answer("get", id, <<"index">>, 200, <<QueryAction(worldState, id)>>)
         ELSE Answer("get", id, <<"index">>, 404, <<>>)
    /\ UNCHANGED <<started, blockchainEnabled, nextUuid, stores, recorder>>
    /\ UNCHANGED tx

\* GET /compliance/actions/:id of the index routes: the row, or 404.
GetAction(id) ==
    /\ started
    /\ reader.pc = "idle"
    /\ reader' = IF SelectById(index, id) = <<>>
                 THEN Answer("get", id, <<"index">>, 404, <<>>)
                 ELSE Answer("get", id, <<"index">>, 200, <<SelectById(index, id)[1]>>)
    /\ UNCHANGED <<started, blockchainEnabled, nextUuid, stores, recorder>>
    /\ UNCHANGED tx

\* The same request when the SELECT throws: 500.
GetActionFailed(id) ==
    /\ started
    /\ reader.pc = "idle"
    /\ reader' = Answer("get", id, <<"indexFail">>, 500, <<>>)
    /\ UNCHANGED <<started, blockchainEnabled, nextUuid, stores, recorder>>
    /\ UNCHANGED tx

\* The client has its answer; the next read request may come.
ReaderReturn ==
    /\ reader.pc = "done"
    /\ reader' = Idle
    /\ UNCHANGED <<started, blockchainEnabled, nextUuid, stores, recorder>>
    /\ UNCHANGED tx

\* The status filters a list request may carry: none, or a status.
AskedStatuses == {Absent, "EXECUTED", "PENDING"}

\* Ids a client may ask for: generated ones and ones it made up.
AskedIds == {Uuid(n) : n \in 1..NumCalls} \cup {"ACT-1"}

\* ------------------------------------------- chaincode transactions
\* A policy entry. control and description are carried along unread and
\* are left out.
Policy(id, standard, requiredAction, severity) ==
    [id |-> id, standard |-> standard, requiredAction |-> requiredAction,
     severity |-> severity, docType |-> "policy"]

\* The baseline policies of InitLedger, in the order it writes them.
baselinePolicies ==
    << Policy("pol-nist-ac-1", "NIST", "ACCESS_CONTROL", "HIGH"),
       Policy("pol-cis-2.1", "CIS", "DISABLE_SMBv1", "CRITICAL") >>

\* ctx.stub.getTxID(): the n-th transaction id; no two agree.
TxId(n) == "tx-" \o ToString(n)

\* The audit entry of executeDecision: it has a txId and no id.
DecisionEntry(txId, decision) ==
    [txId |-> txId, decision |-> decision, docType |-> "decision"]

\* No transaction invoked yet.
NoTx == [fn |-> "none", arg |-> Absent, threw |-> FALSE, result |-> <<>>]

\* The number of entries of docType doc.
CountDocType(ws, doc) == Cardinality({i \in 1..Len(ws) : ws[i].value.docType = doc})

\* PolicyExists: the key holds a non-empty value, of whatever kind.
PolicyExists(ws, policyId) == HasKey(ws, policyId)

\* GetPolicy: the value under the key; throws when the key holds nothing.
GetPolicy(ws, policyId) ==
    IF HasKey(ws, policyId)
    THEN [threw |-> FALSE, result |-> <<GetState(ws, policyId)>>]
    ELSE [threw |-> TRUE, result |-> <<>>]

RECURSIVE ScanPolicies(_)
\* The loop of GetAllPolicies over the range scan: record.docType ===
\* 'policy' || record.id.startsWith('pol-'). An entry that is no policy and
\* has no id makes startsWith throw a TypeError, which ends the scan. No
\* generated id starts with pol-.
ScanPolicies(ws) ==
    IF ws = <<>> THEN [threw |-> FALSE, result |-> <<>>]
    ELSE IF Head(ws).value.docType = "policy"
         THEN [ScanPolicies(Tail(ws)) EXCEPT !.result =
                  IF ScanPolicies(Tail(ws)).threw THEN <<>>
                  ELSE <<Head(ws).value>> \o @]
         ELSE IF "id" \notin DOMAIN Head(ws).value
              THEN [threw |-> TRUE, result |-> <<>>]
              ELSE ScanPolicies(Tail(ws))

GetAllPolicies(ws) == ScanPolicies(ws)

\* The place of a key in key order, where the keys fix it: POL-003 <
\* audit_... < pol-cis-2.1 < pol-nist-ac-1. A generated id (hex digits) has
\* no fixed place (0) but comes before pol-.
Rank(k) ==
    CASE k = "POL-003"       -> 1
      [] k \in {"audit_" \o TxId(n) : n \in 1..MaxEntries} -> 2
      [] k = "pol-cis-2.1"   -> 3
      [] k = "pol-nist-ac-1" -> 4
      [] OTHER               -> 0

\* Key k1 can sort before key k2. Transaction ids are hashes: audit keys
\* have any order among themselves.
MayPrecede(k1, k2) ==
    IF Rank(k1) = 0 THEN TRUE
    ELSE IF Rank(k2) = 0 THEN Rank(k1) <= 2
    ELSE Rank(k1) <= Rank(k2)

\* getStateByRange('', '') scans in key order.
InKeyOrder(ws) ==
    \A i, j \in 1..Len(ws) : i < j => MayPrecede(ws[i].key, ws[j].key)

\* The world states putState(k, v) can lead to: the value of an existing
\* key is replaced; a new key takes a place its order allows.
Puts(ws, k, v) ==
    IF HasKey(ws, k) THEN {PutState(ws, k, v, 1)}
    ELSE {w \in {PutState(ws, k, v, pos) : pos \in 1..(Len(ws) + 1)} : InKeyOrder(w)}

\* InitLedger: putState of each baseline policy under its id.
InitLedger ==
    /\ Len(worldState) + Len(baselinePolicies) <= MaxEntries
    /\ \E ws1 \in Puts(worldState, baselinePolicies[1].id, baselinePolicies[1]) :
          worldState' \in Puts(ws1, baselinePolicies[2].id, baselinePolicies[2])
    /\ tx' = [fn |-> "InitLedger", arg |-> Absent, threw |-> FALSE, result |-> <<>>]
    /\ UNCHANGED <<started, blockchainEnabled, nextUuid, simActions, events,
                   index, recorder, reader>>

\* The policy ids a client may create: a new one, a baseline one, and the
\* keys it has seen on the ledger (the id of an action, the key of an audit
\* entry).
AskedPolicyIds == {"POL-003", "pol-cis-2.1", Uuid(1), "audit_" \o TxId(1)}

\* A generated key is known to a client once the ledger holds it.
KnownPolicyIds(ws) ==
    {k \in AskedPolicyIds : k \in {"POL-003", "pol-cis-2.1"} \/ HasKey(ws, k)}

\* The policy CreatePolicy builds from its arguments (one choice of
\* standard, control, required action and severity).
NewPolicy(policyId) == Policy(policyId, "PCI-DSS", "BLOCK_RDP_PORT", "CRITICAL")

\* CreatePolicy storing the policy whatever the key holds.
CreatePolicyOverwrites(policyId) ==
    /\ policyId \in KnownPolicyIds(worldState)
    /\ worldState' \in Puts(worldState, policyId, NewPolicy(policyId))
    /\ Len(worldState') <= MaxEntries
    /\ tx' = [fn |-> "CreatePolicy", arg |-> policyId,
              threw |-> PolicyExists(worldState, policyId),
              result |-> IF PolicyExists(worldState, policyId) THEN <<>>
                         ELSE <<NewPolicy(policyId)>>]
    /\ UNCHANGED <<started, blockchainEnabled, nextUuid, simActions, events,
                   index, recorder, reader>>

\* CreatePolicy: throws when the key holds an entry already; otherwise the
\* policy is stored under policyId and returned.
CreatePolicy(policyId) ==
    /\ policyId \in KnownPolicyIds(worldState)
    /\ IF PolicyExists(worldState, policyId)
       THEN /\ tx' = [fn |-> "CreatePolicy", arg |-> policyId, threw |-> TRUE,
                      result |-> <<>>]
            /\ UNCHANGED worldState
       ELSE /\ Len(worldState) < MaxEntries
            /\ worldState' \in Puts(worldState, policyId, NewPolicy(policyId))
            /\ tx' = [fn |-> "CreatePolicy", arg |-> policyId, threw |-> FALSE,
                      result |-> <<NewPolicy(policyId)>>]
    /\ UNCHANGED <<started, blockchainEnabled, nextUuid, simActions, events,
                   index, recorder, reader>>

\* executeDecision: an audit entry under audit_<txId> and an event carrying
\* it.
executeDecision(decision) ==
    /\ Len(worldState) < MaxEntries
    /\ LET txId == TxId(CountDocType(worldState, "decision") + 1)
       IN  /\ worldState' \in Puts(worldState, "audit_" \o txId,
                                    DecisionEntry(txId, decision))
           /\ events' = events \cup {[name |-> "DecisionExecuted",
                                       payload |-> DecisionEntry(txId, decision)]}
           /\ tx' = [fn |-> "executeDecision", arg |-> txId, threw |-> FALSE,
                     result |-> <<>>]
    /\ UNCHANGED <<started, blockchainEnabled, nextUuid, simActions, index,
                   recorder, reader>>

\* ExecuteComplianceAction invoked by a client of the chaincode with the
\* body b: the record is stored under a fresh id and sent as an event.
InvokeComplianceAction(b) ==
    /\ Len(worldState) < MaxEntries
    /\ nextUuid < NumCalls
    /\ nextUuid' = nextUuid + 1
    /\ worldState' \in Puts(worldState, Uuid(nextUuid + 1),
                             ChainRecord(b, Uuid(nextUuid + 1)))
    /\ events' = events \cup {[name |-> "ComplianceActionExecuted",
                                payload |-> ChainRecord(b, Uuid(nextUuid + 1))]}
    /\ tx' = [fn |-> "ExecuteComplianceAction", arg |-> Uuid(nextUuid + 1),
              threw |-> FALSE, result |-> <<>>]
    /\ UNCHANGED <<started, blockchainEnabled, simActions, index, recorder, reader>>

\* The bodies clients of the chaincode send: the request of the scenario
\* and one without a confidence.
ChainBodies ==
    { Request("POL-003", "BLOCK_RDP_PORT", 92, Absent),
      Request("POL-003", "BLOCK_RDP_PORT", Undefined, "ACT-1") }

\* The places of the scan order: one more than the keys there can be.
Places == 1..(MaxEntries + 1)

\* ------------------------------------------------------- specification
Init ==
    /\ started = FALSE
    /\ blockchainEnabled = FALSE
    /\ nextUuid = 0
    /\ simActions = <<>>
    /\ worldState = <<>>
    /\ events = {}
    /\ index = <<>>
    /\ pc = [c \in Calls |-> "idle"]
    /\ body = [c \in Calls |-> NoBody]
    /\ rec = [c \in Calls |-> NoRecord]
    /\ resp = [c \in Calls |-> NoResponse]
    /\ trace = [c \in Calls |-> <<>>]
    /\ reader = Idle
    /\ tx = NoTx

\* The steps of a record call after its first.
RecordSteps ==
    \/ \E c \in Calls, pos \in Places : ExecuteComplianceAction(c, pos)
    \/ \E c \in Calls : SubmitFailed(c)
    \/ \E c \in Calls : MirrorInsert(c)
    \/ \E c \in Calls : MirrorFailed(c)
    \/ \E c \in Calls : triggerEnforcement(c)
    \/ \E c \in Calls : RecordRespond(c)

\* The steps of the read requests.
ReadNext ==
    \/ \E status \in AskedStatuses : ListBegin(status)
    \/ ListLedgerReply
    \/ ListLedgerFailed
    \/ ListIndexReply
    \/ ListIndexFailed
    \/ \E status \in AskedStatuses \cup {"executed"}, limit \in AskedLimits :
            ListActions(status, limit)
    \/ \E status \in AskedStatuses \cup {"executed"} : ListActionsFailed(status)
    \/ \E id \in AskedIds : GetAction(id)
    \/ \E id \in AskedIds : GetActionFailed(id)
    \/ ReaderReturn

Start == \E h \in BOOLEAN : startServer(h)

Arrive == \E c \in Calls, b \in Bodies : RecordBegin(c, b)

\* The record calls alone, any number of them in flight at once.
SpecRecord == Init /\ [][Start \/ Arrive \/ RecordSteps]_vars

\* A request that arrives when no record call is between its first step and
\* its response.
RecordBeginAlone(c, b) ==
    /\ \A d \in Calls : pc[d] \in {"idle", "done"}
    /\ RecordBegin(c, b)

ArriveAlone == \E c \in Calls, b \in Bodies : RecordBeginAlone(c, b)

\* Read requests at any moment of record calls that arrive one after the
\* other.
SpecRead == Init /\ [][Start \/ ArriveAlone \/ RecordSteps \/ ReadNext]_vars

\* The ledger call of call c ends: it answers or it throws (the ledger
\* client gives up by itself).
LedgerCallEnds(c) ==
    \/ \E pos \in Places : ExecuteComplianceAction(c, pos)
    \/ SubmitFailed(c)

\* The record calls as the event loop runs them: the server starts, a
\* ledger call ends, and a handler whose await has returned goes on. The
\* INSERT is awaited with no timeout of the handler or of the pool
\* (connectionTimeoutMillis bounds only getting a connection), so nothing
\* makes it end.
SpecLive ==
    /\ Init /\ [][Start \/ Arrive \/ RecordSteps]_vars
    /\ WF_vars(Start)
    /\ \A c \in Calls : /\ WF_vars(LedgerCallEnds(c))
                        /\ WF_vars(triggerEnforcement(c))
                        /\ WF_vars(RecordRespond(c))

\* The configured maximum of a page that the specification speaks of. The
\* code configures none; the value stands for any such maximum.
MaxLimit == 1

\* The transactions clients other than the backend invoke on the chaincode.
ChainNext ==
    \/ InitLedger
    \/ \E policyId \in AskedPolicyIds : CreatePolicy(policyId)
    \/ \E b \in ChainBodies : InvokeComplianceAction(b)
    \/ executeDecision("QUARANTINE")

\* The chaincode under the transactions of its clients, in any order.
SpecChain == Init /\ [][ChainNext]_vars

\* The process ends and is started again: every value of the module is
\* back at its initial value (blockchainEnabled false, a new SimulationMode
\* with no actions), requests in progress are lost, and the database and
\* the chaincode's ledger keep what they hold. A call that had begun is
\* marked as one of an earlier run.
RestartKeepsActions ==
    /\ started
    /\ started' = FALSE
    /\ blockchainEnabled' = FALSE
    /\ pc' = [c \in Calls |-> IF pc[c] = "idle" THEN "idle" ELSE "done"]
    /\ trace' = [c \in Calls |->
                    IF pc[c] = "idle" \/ \E i \in 1..Len(trace[c]) : trace[c][i] = "restart"
                    THEN trace[c] ELSE Append(trace[c], "restart")]
    /\ reader' = Idle
    /\ UNCHANGED <<nextUuid, simActions, worldState, events, index, body, rec, resp, tx>>

Restart ==
    /\ started
    /\ started' = FALSE
    /\ blockchainEnabled' = FALSE
    /\ simActions' = <<>>
    /\ pc' = [c \in Calls |-> IF pc[c] = "idle" THEN "idle" ELSE "done"]
    /\ trace' = [c \in Calls |->
                    IF pc[c] = "idle" \/ \E i \in 1..Len(trace[c]) : trace[c][i] = "restart"
                    THEN trace[c] ELSE Append(trace[c], "restart")]
    /\ reader' = Idle
    /\ UNCHANGED <<nextUuid, worldState, events, index, body, rec, resp, tx>>

\* The request of the end-to-end scenario arrives.
ArriveScenario ==
    \E c \in Calls : RecordBeginAlone(c, Request("POL-003", "BLOCK_RDP_PORT", 92, Absent))

\* The list requests, without a filter.
ListNext ==
    \/ ListBegin(Absent)
    \/ ListLedgerReply
    \/ ListLedgerFailed
    \/ ListIndexReply
    \/ ListIndexFailed
    \/ ReaderReturn

\* Record calls of the scenario, one after the other, and list requests,
\* over runs of the process.
SpecRestart ==
    Init /\ [][Start \/ ArriveScenario \/ RecordSteps \/ ListNext \/ Restart]_vars

\* Every step of the backend, of the chaincode's clients and of the
\* process.
Next == Start \/ Arrive \/ RecordSteps \/ ReadNext \/ ChainNext \/ Restart

Spec == Init /\ [][Next]_vars

\* ---------------------------------------------------------- properties
Range(q) == {q[i] : i \in 1..Len(q)}

\* Call c has performed side effect e.
Did(c, e) == e \in Range(trace[c])

\* Call c has answered 200 with its record.
Returned(c) == pc[c] = "done" /\ resp[c].code = 200

\* The records the ledger in use holds.
LedgerRecords ==
    IF blockchainEnabled THEN {e.value : e \in Range(worldState)} ELSE Range(simActions)

\* C1: a record call whose ledger write failed still answers with a record
\* of status FAILED and no ledger proof, never with an error.
C1_LedgerFailureReturnsFailedRecord ==
    \A c \in Calls :
        (pc[c] = "done" /\ Did(c, "ledgerFail")) =>
            /\ resp[c].code = 200
            /\ resp[c].record.status = "FAILED"
            /\ resp[c].record.blockHash = Absent

\* C2: a record call whose ledger write failed still attempts the index
\* mirror and the enforcement trigger, and a mirror that succeeded left a
\* FAILED row of that call in the index.
C2_LedgerFailureStillMirrorsAndEnforces ==
    \A c \in Calls :
        (pc[c] = "done" /\ Did(c, "ledgerFail")) =>
            /\ Did(c, "mirror") \/ Did(c, "mirrorFail")
            /\ Did(c, "enforce")
            /\ Did(c, "mirror") =>
                   \E r \in Range(index) : r.id = rec[c].id /\ r.status = "FAILED"

\* C3: get(id) never answers NotFound for an id a record call has returned,
\* unless the real ledger can still be asked for it (QueryAction).
C3_ReturnedIdIsRetrievable ==
    [][(reader.pc = "idle" /\ reader'.op = "get" /\ reader'.code = 404) =>
          \A c \in Calls :
              (Returned(c) /\ resp[c].record.id = reader'.arg) =>
                  (blockchainEnabled /\ QueryAction(worldState, reader'.arg) # NoRecord)]_vars

\* C4: a list served from the ledger never holds two entries with one id.
C4_LedgerListHasNoDuplicateIds ==
    (reader.op = "list" /\ reader.pc = "done" /\ reader.consulted = <<"ledger">>) =>
        \A i, j \in 1..Len(reader.rows) :
            reader.rows[i].id = reader.rows[j].id => i = j

\* C5: no two record calls hold the same id, and the id is never the one
\* the request body carried.
C5_IdsAreGeneratedAndUnique ==
    \A c, d \in Calls :
        (rec[c] # NoRecord /\ rec[d] # NoRecord) =>
            /\ c # d => rec[c].id # rec[d].id
            /\ body[c].id # Absent => rec[c].id # body[c].id

\* C6: every confidence stored in the ledger or in the index lies in [0,1]
\* (0..100 hundredths); an absent one is stored as 0.
C6_StoredConfidenceInRange ==
    /\ \A r \in Range(simActions) : r.confidence \in 0..100
    /\ \A e \in Range(worldState) : e.value.confidence \in 0..100
    /\ \A r \in Range(index) : r.confidence \in 0..100

IndexConsulted(rd) == "index" \in Range(rd.consulted) \/ "indexFail" \in Range(rd.consulted)

\* C7: list consults the index only after the ledger read has failed; it
\* then answers the rows of the index, and answers an error only when the
\* index read has failed too.
C7_ListFallsBackToIndex ==
    [][(reader' # reader /\ reader'.op = "list") =>
          /\ IndexConsulted(reader') =>
                 (reader.consulted = <<"ledgerFail">> /\ reader'.consulted[1] = "ledgerFail")
          /\ (reader'.pc = "done" /\ reader.consulted = <<"ledgerFail">>
                 /\ "indexFail" \notin Range(reader'.consulted)) =>
                 /\ reader'.code = 200
                 /\ Len(reader'.rows) = Len(index)
                 /\ Range(reader'.rows) = Range(index)
          /\ (reader'.pc = "done" /\ reader'.code # 200) =>
                 reader'.consulted = <<"ledgerFail", "indexFail">>
          /\ (reader'.pc = "done" /\ reader.consulted # <<"ledgerFail">>) =>
                 (reader'.consulted = <<"ledger">> /\ reader'.code = 200)]_vars

\* A list was answered from the index, which held a row.
C7_Witness ==
    /\ reader.op = "list" /\ reader.pc = "done"
    /\ reader.consulted = <<"ledgerFail", "index">>
    /\ reader.code = 200 /\ Len(reader.rows) > 0

BothUnreachable ==
    reader.op = "list" /\ reader.pc = "done"
        /\ reader.consulted = <<"ledgerFail", "indexFail">>

Before(t, first, then) ==
    \A i \in 1..Len(t) : t[i] \in then => \E j \in 1..(i - 1) : t[j] \in first

\* C9: within one record call the ledger write comes before the index
\* mirror, the mirror ends before enforcement is triggered, and the record
\* is answered only after enforcement, whatever other calls do meanwhile.
C9_SideEffectsInOrder ==
    \A c \in Calls :
        /\ Before(trace[c], {"ledger"}, {"mirror", "mirrorFail"})
        /\ Before(trace[c], {"mirror", "mirrorFail"}, {"enforce"})
        /\ Before(trace[c], {"enforce"}, {"respond"})
        /\ Returned(c) => Did(c, "respond")
        /\ \A i, j \in 1..Len(trace[c]) : trace[c][i] = trace[c][j] => i = j

\* A call has gone through all its side effects while another was between
\* its ledger write and its response.
C9_Witness ==
    \E c, d \in Calls :
        /\ trace[c] = <<"ledger", "mirror", "enforce", "respond">>
        /\ pc[d] \in {"ledgerDone", "mirrored", "enforced"}

\* The ledger in use holds r under r's id.
LedgerHolds(r) ==
    IF blockchainEnabled THEN GetState(worldState, r.id) = r ELSE r \in Range(simActions)

\* C10: a failed index insert is swallowed: the ledger entry of the call
\* stays as written, enforcement is triggered and the call answers 200 with
\* the record.
C10_MirrorFailureIsSwallowed ==
    \A c \in Calls :
        Did(c, "mirrorFail") =>
            /\ rec[c] # NoRecord /\ LedgerHolds(rec[c])
            /\ pc[c] = "done" =>
                   /\ resp[c] = [code |-> 200, record |-> rec[c]]
                   /\ Did(c, "enforce")

\* A call whose index insert failed has answered.
C10_Witness == \E c \in Calls : Did(c, "mirrorFail") /\ pc[c] = "done"


\* The compliance-action entries of the ledger in use, as a list reads them.
LedgerEntries == IF blockchainEnabled THEN QueryAllActions(worldState) ELSE simActions

\* The calls that have performed side effect e.
Doers(e) == {c \in Calls : Did(c, e)}

\* The calls that passed validation and have answered.
ValidDone == {c \in Calls : pc[c] = "done" /\ resp[c].code # 400}

\* C11 as stated: once the calls have answered, the ledger holds exactly one
\* entry for each call that passed validation.
C11_Original_OneEntryPerValidCall ==
    (\A c \in Calls : pc[c] \in {"idle", "done"}) =>
        Len(LedgerEntries) = Cardinality(ValidDone)

\* C11 as amended: the ledger holds exactly one entry for each call whose
\* ledger write succeeded and none for a call whose ledger write failed,
\* the index holds one row for each mirror that succeeded and never more
\* rows than the ledger has entries, no call performs a side effect twice,
\* and a call that answered 200 has its entry.
C11_OneEntryPerLedgerWrite ==
    /\ Len(LedgerEntries) = Cardinality(Doers("ledger"))
    /\ Len(index) = Cardinality(Doers("mirror"))
    /\ Len(index) <= Len(LedgerEntries)
    /\ \A c \in Calls :
           /\ \A i, j \in 1..Len(trace[c]) : trace[c][i] = trace[c][j] => i = j
           /\ ~(Did(c, "ledger") /\ Did(c, "ledgerFail"))
           /\ ~(Did(c, "mirror") /\ Did(c, "mirrorFail"))
           /\ Returned(c) => Did(c, "ledger")
           /\ (c \in ValidDone /\ ~Returned(c)) => Did(c, "ledgerFail")

\* Every call has answered 200: as many ledger entries as calls.
C11_Witness ==
    /\ \A c \in Calls : Returned(c)
    /\ Len(LedgerEntries) = NumCalls
    /\ Len(index) < NumCalls


Missing(s) == s = Absent \/ s = ""

C13_BackendChosenOnce ==
    [][/\ started => (started' /\ blockchainEnabled' = blockchainEnabled)
       /\ ~started => (\A c \in Calls : pc[c] = "idle" /\ pc'[c] = "idle")
       /\ ~started => ~blockchainEnabled]_vars

\* After a failed handshake every call was served by the local backend.
C13_Witness ==
    /\ started /\ ~blockchainEnabled
    /\ \A c \in Calls : Returned(c) /\ rec[c] \in Range(simActions)


Terminal == {"EXECUTED", "FAILED"}

\* The statuses a read of id shows: through a list served from the ledger,
\* and through a list or a get served from the index.
LedgerStatuses(id) == {r.status : r \in {x \in Range(LedgerEntries) : x.id = id}}
IndexStatuses(id) == {r.status : r \in {x \in Range(index) : x.id = id}}
VisibleStatuses(id) == LedgerStatuses(id) \cup IndexStatuses(id)

C15_SimulationRecordIsExecuted ==
    ~blockchainEnabled =>
        \A c \in Calls :
            (pc[c] = "done" /\ ~(Missing(body[c].policyId) \/ Missing(body[c].action))) =>
                /\ resp[c].code = 200
                /\ resp[c].record.status = "EXECUTED"
                /\ resp[c].record.blockHash \notin {Absent, ""}

\* A request carrying status PENDING, an empty blockHash and an id has
\* been answered in simulation mode.
C15_Witness ==
    \E c \in Calls :
        /\ ~blockchainEnabled /\ Returned(c)
        /\ body[c].status = "PENDING" /\ body[c].blockHash = "" /\ body[c].id # Absent


\* The record the other backend builds for the request of call c.
OtherBackendRecord(c) ==
    IF blockchainEnabled THEN SimRecord(body[c], rec[c].id)
    ELSE ChainRecord(body[c], rec[c].id)

\* C16: the record a call returns has the same policyId, actionTaken,
\* confidence and status as the record the other backend builds for the
\* same request, and both carry a ledger proof.
C16_BackendsReturnSameRecord ==
    \A c \in Calls :
        Returned(c) =>
            /\ resp[c].record.policyId = OtherBackendRecord(c).policyId
            /\ resp[c].record.actionTaken = OtherBackendRecord(c).actionTaken
            /\ resp[c].record.confidence = OtherBackendRecord(c).confidence
            /\ resp[c].record.status = OtherBackendRecord(c).status
            /\ resp[c].record.blockHash # Absent
            /\ OtherBackendRecord(c).blockHash # Absent


\* The action code a record carries, under either of its names.
ActionCode(r) == IF r.actionTaken # Absent THEN r.actionTaken ELSE r.action

\* C17: the row a call mirrors into the index has the id, policyId, action
\* code, confidence (an absent one read as 0) and status of the record the
\* call wrote to the ledger and returns.
C17_IndexRowIsFinalRecord ==
    \A c \in Calls :
        Did(c, "mirror") =>
            \E r \in Range(index) :
                /\ r.id = rec[c].id
                /\ r.policy_id = rec[c].policyId
                /\ r.action_taken = ActionCode(rec[c])
                /\ r.confidence = (IF rec[c].confidence = Undefined THEN 0
                                   ELSE rec[c].confidence)
                /\ r.status = rec[c].status


\* C18: the enforcement trigger returns normally for every record, with or
\* without actionTaken: the step that triggers it changes no store and
\* sends no response, and the call then answers 200 with its record.
C18_EnforcementNeverThrows ==
    /\ [][\A c \in Calls :
             (pc[c] = "mirrored" /\ pc'[c] # "mirrored") =>
                 /\ pc'[c] = "enforced"
                 /\ stores' = stores
                 /\ resp'[c] = NoResponse]_vars
    /\ [](\A c \in Calls :
             (pc[c] = "done" /\ Did(c, "enforce")) =>
                 /\ resp[c] = [code |-> 200, record |-> rec[c]]
                 /\ LedgerHolds(rec[c])
                 /\ Did(c, "mirror") => \E r \in Range(index) : r.id = rec[c].id)

\* Enforcement was triggered for a record without actionTaken, and the call
\* answered with its record.
C18_Witness ==
    \E c \in Calls :
        /\ Returned(c) /\ Did(c, "enforce")
        /\ rec[c].actionTaken = Absent /\ rec[c].policyId # Absent


\* C19: no request waits forever on a backend: a record call that has begun
\* eventually sends its response.
C19_EveryCallCompletes ==
    \A c \in Calls : (pc[c] \notin {"idle", "done"}) ~> (pc[c] = "done")


\* C20: a list served from the ledger with the filter status = S answers
\* only compliance actions whose status is S.
C20_LedgerListAppliesStatusFilter ==
    (/\ reader.op = "list" /\ reader.pc = "done"
     /\ reader.consulted = <<"ledger">>
     /\ reader.arg # Absent)
        => \A i \in 1..Len(reader.rows) : reader.rows[i].status = reader.arg


\* The place of a record in the order the simulated ledger was written:
\* push order is creation order.
CreatedAt(r) == CHOOSE i \in 1..Len(simActions) : simActions[i] = r

\* C21: a list served from the local ledger is newest first: of any two
\* records of one answer, the one created later comes earlier.
C21_LedgerListNewestFirst ==
    (/\ ~blockchainEnabled
     /\ reader.op = "list" /\ reader.pc = "done"
     /\ reader.consulted = <<"ledger">>)
        => \A i, j \in 1..Len(reader.rows) :
              i < j => CreatedAt(reader.rows[i]) > CreatedAt(reader.rows[j])


\* C22: a list served from the index never answers more rows than the
\* configured maximum, whatever limit is asked for.
C22_IndexListIsCapped ==
    (/\ reader.op \in {"list", "page"} /\ reader.pc = "done"
     /\ reader.code = 200
     /\ "index" \in Range(reader.consulted))
        => Len(reader.rows) <= MaxLimit


\* C23: get answers from the index alone. An id whose record is held only
\* by the ledger (its index insert failed) is answered NotFound (404); a
\* found answer is the one index row of the id asked for, never a default
\* set and never the record of another id.
C23_GetOfLedgerOnlyIdIsNotFound ==
    (reader.op = "get" /\ reader.pc = "done") =>
        /\ reader.code \in {200, 404, 500}
        /\ reader.code = 200 =>
              /\ Len(reader.rows) = 1
              /\ reader.rows[1].id = reader.arg
              /\ reader.rows[1] \in Range(index)
        /\ reader.code # 200 => reader.rows = <<>>
        /\ (/\ reader.consulted = <<"index">>
            /\ ~\E r \in Range(index) : r.id = reader.arg) => reader.code = 404

\* A call answered 200, its index insert had failed, and a get of its id,
\* which the ledger holds and the index does not, was answered 404.
C23_Witness ==
    \E c \in Calls :
        /\ Returned(c) /\ Did(c, "mirrorFail")
        /\ LedgerHolds(rec[c])
        /\ ~\E r \in Range(index) : r.id = rec[c].id
        /\ reader.op = "get" /\ reader.pc = "done"
        /\ reader.arg = rec[c].id /\ reader.code = 404


\* The ids of the compliance actions of a list.
ActionIds(actions) == {actions[i].id : i \in 1..Len(actions)}

\* C24: compliance actions are append-only: no step takes the id of an
\* action out of what a ledger-served list shows, from the local ledger or
\* from the chaincode's.
C24_LedgerIsAppendOnly ==
    [][/\ ActionIds(SimEvaluate(simActions)) \subseteq ActionIds(SimEvaluate(simActions'))
       /\ ActionIds(QueryAllActions(worldState))
              \subseteq ActionIds(QueryAllActions(worldState'))]_vars

\* The ledger holds an action and a policy, and a client has tried to
\* create a policy under the id of the action.
C24_Witness ==
    /\ tx.fn = "CreatePolicy" /\ tx.threw
    /\ tx.arg \in ActionIds(QueryAllActions(worldState))
    /\ CountDocType(worldState, "policy") > 0


C26_EventCarriesStoredRecord ==
    [][\A e \in events' \ events :
          e.name = "ComplianceActionExecuted" =>
              /\ ~HasKey(worldState, e.payload.id)
              /\ HasKey(worldState', e.payload.id)
              /\ GetState(worldState', e.payload.id) = e.payload]_vars

\* Two actions were executed for requests that differ (one with a
\* confidence, one without).
C26_Witness ==
    \E e1, e2 \in events :
        /\ e1.name = "ComplianceActionExecuted" /\ e2.name = "ComplianceActionExecuted"
        /\ e1.payload.confidence = Undefined
        /\ e2.payload.confidence # Undefined


\* C27: in every ledger state GetAllPolicies completes and returns the
\* stored policy entries, and nothing else.
C27_GetAllPoliciesReturnsPolicies ==
    /\ ~GetAllPolicies(worldState).threw
    /\ GetAllPolicies(worldState).result = ScanDocType(worldState, "policy")


\* The records ExecuteComplianceAction has written, as its events tell.
Executed == {e.payload : e \in {f \in events : f.name = "ComplianceActionExecuted"}}

\* C28: QueryAllActions returns the entries of docType complianceAction and
\* no other: every action ExecuteComplianceAction wrote is in the result
\* once, and no policy or decision entry is.
C28_QueryAllActionsReturnsActions ==
    LET result == QueryAllActions(worldState)
    IN  /\ \A i \in 1..Len(result) : result[i].docType = "complianceAction"
        /\ \A r \in Executed : Cardinality({i \in 1..Len(result) : result[i] = r}) = 1
        /\ Len(result) = Cardinality(Executed)

\* The ledger holds two actions, a policy and a decision.
C28_Witness ==
    /\ Cardinality(Executed) = 2
    /\ CountDocType(worldState, "policy") > 0
    /\ CountDocType(worldState, "decision") > 0


\* C29: CreatePolicy under a key that holds an entry throws and leaves the
\* ledger as it was; under an unused key it adds one policy entry under
\* that key, the one GetPolicy returns.
C29_CreatePolicyNeverOverwrites ==
    [][(tx'.fn = "CreatePolicy" /\ (tx' # tx \/ worldState' # worldState)) =>
          IF HasKey(worldState, tx'.arg)
          THEN tx'.threw /\ worldState' = worldState
          ELSE /\ ~tx'.threw
               /\ Len(worldState') = Len(worldState) + 1
               /\ Range(worldState) \subseteq Range(worldState')
               /\ Cardinality({i \in 1..Len(worldState') :
                                  worldState'[i].key = tx'.arg}) = 1
               /\ tx'.result[1].docType = "policy" /\ tx'.result[1].id = tx'.arg
               /\ GetPolicy(worldState', tx'.arg) =
                      [threw |-> FALSE, result |-> tx'.result]]_vars

\* A policy was created under a new key, and a later CreatePolicy under
\* the key of an audit entry threw.
C29_Witness ==
    /\ HasKey(worldState, "POL-003")
    /\ GetState(worldState, "POL-003") = NewPolicy("POL-003")
    /\ tx.fn = "CreatePolicy" /\ tx.threw
    /\ HasKey(worldState, tx.arg)
    /\ GetState(worldState, tx.arg).docType = "decision"


\* C30: with the local backend a list is answered from the in-memory
\* ledger at once and never consults the index; so after a restart it
\* shows no record of an earlier run, although the index still holds them.
C30_LocalListShowsThisRunOnly ==
    (~blockchainEnabled /\ reader.op = "list") =>
        /\ reader.pc = "done" /\ reader.code = 200
        /\ reader.consulted = <<"ledger">>
        /\ Range(reader.rows) \subseteq Range(simActions)
        /\ \A c \in Calls : Did(c, "restart") => rec[c] \notin Range(reader.rows)

\* A call of an earlier run with the local backend was recorded and
\* mirrored; in this run a record was made and a list answered it alone,
\* while the index holds the row of the earlier record.
C30_Witness ==
    \E c \in Calls :
        /\ Did(c, "restart") /\ Did(c, "mirror")
        /\ rec[c].blockHash # Absent
        /\ \E r \in Range(index) : r.id = rec[c].id
        /\ ~blockchainEnabled /\ started
        /\ reader.op = "list" /\ reader.pc = "done"
        /\ Len(reader.rows) = 1

====
